---- MODULE Spec2Model ----
(***************************************************************************)
(* SABlock (lavis/models/blip_models/selfattention.py): a multi-head       *)
(* self-attention block.  The model covers construction (__init__), the    *)
(* forward pass on both the fused (scaled_dot_product_attention) and the   *)
(* manual (einsum/softmax) path, the public use_flash_attention toggle and *)
(* the train/eval switch inherited from nn.Module.                         *)
(*                                                                         *)
(* Tensors are records [shape, data] with data in row-major order.         *)
(* Integer-valued stages (the qkv projection, the rearrangements, the raw  *)
(* attention scores) are computed exactly.  From the softmax on, elements  *)
(* are exact symbolic terms (records tagged by "op"): equal terms denote   *)
(* equal real numbers.  Rates are exact rationals <<num, den>>.            *)
(***************************************************************************)
EXTENDS Integers, Sequences, FiniteSets, TLC

VARIABLES
    constructed,          \* a block exists (the last __init__ returned)
    cfg,                  \* num_heads, dim_head, inner_dim, dropout_rate, scale, save_attn
    qkv,                  \* self.qkv      : [weight, bias]
    out_proj,             \* self.out_proj : [weight, bias]
    att_mat,              \* self.att_mat
    use_flash_attention,  \* self.use_flash_attention
    training,             \* nn.Module.training
    ret                   \* outcome of the __init__ / forward call just made,
                          \* NoRet once the caller has taken it

vars == <<constructed, cfg, qkv, out_proj, att_mat, use_flash_attention, training, ret>>

-----------------------------------------------------------------------------
\* Bounds of the explored inputs.
MaxHidden == 3
MaxHeads == 2
MaxDimHead == 2
MaxBatch == 2
MaxSeq == 2
MaskBits == 1

NoErr == "ok"

HiddenSizes == 2..MaxHidden
HeadCounts == 1..MaxHeads
\* dim_head argument: <<>> is None, <<d>> is the integer d
DimHeads == {<<>>} \cup {<<d>> : d \in 0..MaxDimHead}
\* draws of the random parameter initialisation
Seeds == {1}

\* dropout_rate candidates as exact rationals <<num, den>>: -1/2, 0, 1/2, 1, 3/2
Rates == {<<-1, 2>>, <<0, 1>>, <<1, 2>>, <<1, 1>>, <<3, 2>>}

\* (variant: the upper end excluded)
RateInRangeExclusive(r) == 0 <= r[1] /\ r[1] < r[2]

\* 0 <= r <= 1 for a rational r = <<num, den>>, den > 0
RateInRange(r) == 0 <= r[1] /\ r[1] <= r[2]

-----------------------------------------------------------------------------
\* Tensor helpers (row-major layout).

RECURSIVE Prod(_)
Prod(s) == IF s = <<>> THEN 1 ELSE Head(s) * Prod(Tail(s))

RECURSIVE SumSeq(_)
SumSeq(s) == IF s = <<>> THEN 0 ELSE Head(s) + SumSeq(Tail(s))

\* a function over 1..n as a sequence
Seal(f) == SubSeq(f, 1, Len(f))

NoTensor == [shape |-> <<>>, data |-> <<>>]

\* torch.Tensor(): an empty 1-d tensor of shape [0]
EmptyTensor == [shape |-> <<0>>, data |-> <<>>]

-----------------------------------------------------------------------------
\* Construction: SABlock.__init__

\* Values of a freshly initialised parameter tensor: nn.Linear draws them at
\* random; a seed selects one draw, entries range over {-1, 0, 1}.
ParamData(seed, salt, n) ==
    [o \in 1..n |-> ((seed + salt + (o - 1) + ((o - 1) \div 3)) % 3) - 1]

\* nn.Linear(in_features, out_features, bias): weight [out, in], bias [out] or None
NewLinear(in, out, bias, seed, salt) ==
    [weight |-> [shape |-> <<out, in>>, data |-> Seal(ParamData(seed, salt, out * in))],
     bias   |-> IF bias THEN [shape |-> <<out>>, data |-> Seal(ParamData(seed, salt + 1, out))]
                ELSE NoTensor]

NoLinear == [weight |-> NoTensor, bias |-> NoTensor]

\* self.dim_head = hidden_size // num_heads if dim_head is None else dim_head
DimHeadOf(hidden_size, num_heads, dim_head) ==
    IF dim_head = <<>> THEN hidden_size \div num_heads ELSE dim_head[1]

\* self.scale = self.dim_head**-0.5, kept exact as base^(num/den)
ScaleOf(dh) == [base |-> dh, exp |-> <<-1, 2>>]

\* (variant: the test inverted)
IndivisibleInverted(hidden_size, num_heads) == hidden_size % num_heads = 0

\* The divisibility check of __init__: it does not look at dim_head
Indivisible(hidden_size, num_heads) == hidden_size % num_heads # 0

\* The exception __init__ raises, in the order of its statements, or NoErr
InitErr(hidden_size, num_heads, dropout_rate, dim_head) ==
    IF ~RateInRange(dropout_rate)
    THEN [err |-> "ValueError", msg |-> "dropout_rate should be between 0 and 1."]
    ELSE IF Indivisible(hidden_size, num_heads)
    THEN [err |-> "ValueError", msg |-> "hidden size should be divisible by num_heads."]
    ELSE IF DimHeadOf(hidden_size, num_heads, dim_head) = 0
    THEN [err |-> "ZeroDivisionError", msg |-> "0.0 cannot be raised to a negative power"]
    ELSE [err |-> NoErr, msg |-> ""]

NoCfg == [num_heads |-> 0, dim_head |-> 0, inner_dim |-> 0, dropout_rate |-> <<0, 1>>,
          scale |-> ScaleOf(0), save_attn |-> FALSE]

InitCfg(hidden_size, num_heads, dropout_rate, save_attn, dim_head) ==
    LET dh == DimHeadOf(hidden_size, num_heads, dim_head) IN
    [num_heads |-> num_heads, dim_head |-> dh, inner_dim |-> dh * num_heads,
     dropout_rate |-> dropout_rate, scale |-> ScaleOf(dh), save_attn |-> save_attn]

NoArgs == [hidden_size |-> 0, num_heads |-> 0, dropout_rate |-> <<0, 1>>,
           qkv_bias |-> FALSE, save_attn |-> FALSE, dim_head |-> <<>>]

NoRet == [op |-> "none", err |-> NoErr, msg |-> "", args |-> NoArgs, x |-> NoTensor,
          flash |-> FALSE, train |-> FALSE, out |-> NoTensor]

Construct(hidden_size, num_heads, dropout_rate, qkv_bias, save_attn, dim_head, seed) ==
    LET e == InitErr(hidden_size, num_heads, dropout_rate, dim_head)
        c == InitCfg(hidden_size, num_heads, dropout_rate, save_attn, dim_head)
        a == [hidden_size |-> hidden_size, num_heads |-> num_heads,
              dropout_rate |-> dropout_rate, qkv_bias |-> qkv_bias,
              save_attn |-> save_attn, dim_head |-> dim_head]
    IN  /\ ~constructed
        /\ ret = NoRet
        /\ ret' = [NoRet EXCEPT !.op = "init", !.err = e.err, !.msg = e.msg, !.args = a]
        /\ IF e.err = NoErr
           THEN /\ constructed' = TRUE
                /\ cfg' = c
                /\ out_proj' = NewLinear(c.inner_dim, hidden_size, TRUE, seed, 0)
                /\ qkv' = NewLinear(hidden_size, c.inner_dim * 3, qkv_bias, seed, 2)
                /\ att_mat' = EmptyTensor
                /\ use_flash_attention' = FALSE
                /\ training' = TRUE
           ELSE UNCHANGED <<constructed, cfg, qkv, out_proj, att_mat,
                            use_flash_attention, training>>

\* nn.Module.train() / nn.Module.eval(), inherited by SABlock
SetTraining(mode) ==
    /\ constructed
    /\ ret = NoRet
    /\ training' = mode
    /\ UNCHANGED <<constructed, cfg, qkv, out_proj, att_mat, use_flash_attention, ret>>

\* block.use_flash_attention = flag (public attribute, set by the caller)
SetUseFlashAttention(flag) ==
    /\ constructed
    /\ ret = NoRet
    /\ use_flash_attention' = flag
    /\ UNCHANGED <<constructed, cfg, qkv, out_proj, att_mat, training, ret>>

-----------------------------------------------------------------------------
\* Forward pass: SABlock.forward

\* (variant: only an input too narrow is refused)
LinearErrNarrowOnly(x, lin) ==
    IF Len(x.shape) = 0 \/ x.shape[Len(x.shape)] < lin.weight.shape[2]
    THEN "RuntimeError" ELSE NoErr

\* F.linear raises unless the input's last dimension equals in_features
LinearErr(x, lin) ==
    IF Len(x.shape) = 0 \/ x.shape[Len(x.shape)] # lin.weight.shape[2]
    THEN "RuntimeError" ELSE NoErr

\* self.qkv(x): y[..., f] = sum_i x[..., i] * weight[f, i] + bias[f]  (integers)
Linear(x, lin) ==
    LET in   == lin.weight.shape[2]
        out  == lin.weight.shape[1]
        last == x.shape[Len(x.shape)]
        rows == Prod(x.shape) \div last
    IN  [shape |-> SubSeq(x.shape, 1, Len(x.shape) - 1) \o <<out>>,
         data  |-> Seal([o \in 1..(rows * out) |->
                      LET r == (o - 1) \div out
                          f == (o - 1) % out
                      IN  SumSeq([i \in 1..in |->
                                    x.data[r * last + i] * lin.weight.data[f * in + i]])
                          + (IF lin.bias = NoTensor THEN 0 ELSE lin.bias.data[f + 1])])]

\* Rearrange("b h (qkv l d) -> qkv b l h d", qkv=3, l=num_heads) accepts only
\* rank-3 input whose last axis factors as 3 * l * d
RearrangeErr(shape, l) ==
    IF Len(shape) # 3 THEN "EinopsError"
    ELSE IF shape[3] % (3 * l) # 0 THEN "EinopsError"
    ELSE NoErr

\* (variant: the pattern "(qkv d l)", positions before heads)
PackedIndexPositionsFirst(c, li, di, l, d) == (c * d + di) * l + li

\* position on the composite axis (qkv l d) of chunk c, head li, element di
PackedIndex(c, li, di, l, d) == (c * l + li) * d + di

\* self.input_rearrange: [b, h, 3*l*d] -> [3, b, l, h, d];
\* out[c, bi, li, hi, di] = t[bi, hi, PackedIndex(c, li, di)]
InputRearrange(t, l) ==
    LET b == t.shape[1]
        h == t.shape[2]
        d == t.shape[3] \div (3 * l)
    IN  [shape |-> <<3, b, l, h, d>>,
         data  |-> Seal([o \in 1..(3 * b * l * h * d) |->
                      LET di == (o - 1) % d
                          hi == ((o - 1) \div d) % h
                          li == ((o - 1) \div (d * h)) % l
                          bi == ((o - 1) \div (d * h * l)) % b
                          c  == (o - 1) \div (d * h * l * b)
                      IN  t.data[(bi * h + hi) * t.shape[3]
                                 + PackedIndex(c, li, di, l, d) + 1]])]

\* output[c]: the c-th slice along the first axis
Select(t, c) ==
    LET n == Prod(Tail(t.shape))
    IN  [shape |-> Tail(t.shape), data |-> SubSeq(t.data, c * n + 1, (c + 1) * n)]

\* torch.einsum("blxd,blyd->blxy", q, k): raw scores, integers
Scores(q, k) ==
    LET bl == q.shape[1] * q.shape[2]
        xs == q.shape[3]
        ys == k.shape[3]
        d  == q.shape[4]
    IN  [shape |-> <<q.shape[1], q.shape[2], xs, ys>>,
         data  |-> Seal([o \in 1..(bl * xs * ys) |->
                      LET yi == (o - 1) % ys
                          xi == ((o - 1) \div ys) % xs
                          bi == (o - 1) \div (ys * xs)
                      IN  SumSeq([dd \in 1..d |->
                                    q.data[(bi * xs + xi) * d + dd]
                                    * k.data[(bi * ys + yi) * d + dd]])])]

\* t * scale: the product n * scale kept exact
Scaled(t, scale) ==
    [shape |-> t.shape,
     data  |-> Seal([o \in 1..Len(t.data) |-> [n |-> t.data[o], scale |-> scale]])]

\* softmax over the last axis: the weight of key y in its row is
\* 1 / sum_j exp(scale * (n_j - n_y)), kept as the exponents' differences
Softmax(t) ==
    LET ys == t.shape[Len(t.shape)]
    IN  [shape |-> t.shape,
         data  |-> Seal([o \in 1..Len(t.data) |->
                      LET row == ((o - 1) \div ys) * ys
                      IN  [op    |-> "softmax",
                           e     |-> [j \in 1..ys |-> t.data[row + j].n - t.data[o].n],
                           scale |-> t.data[o].scale]])]

Zero == [op |-> "zero"]

\* dropout with probability p = <<num, den>>: when active, the elements at the
\* flat offsets in `dropped` become zero and the others are multiplied by
\* 1/(1-p) = den/(den-num); p = 0 multiplies by one
Dropout(t, p, active, dropped) ==
    [shape |-> t.shape,
     data  |-> Seal([o \in 1..Len(t.data) |->
                  IF ~active THEN t.data[o]
                  ELSE IF (o - 1) \in dropped THEN Zero
                  ELSE IF p[1] = 0 THEN t.data[o]
                  ELSE [op |-> "scaled", by |-> <<p[2], p[2] - p[1]>>, x |-> t.data[o]]])]

\* torch.einsum("bhxy,bhyd->bhxd", att_mat, v)
WeightedSum(att, v) ==
    LET bh == att.shape[1] * att.shape[2]
        xs == att.shape[3]
        ys == att.shape[4]
        d  == v.shape[4]
    IN  [shape |-> <<att.shape[1], att.shape[2], xs, d>>,
         data  |-> Seal([o \in 1..(bh * xs * d) |->
                      LET di == (o - 1) % d
                          xi == ((o - 1) \div d) % xs
                          bi == (o - 1) \div (d * xs)
                      IN  [op |-> "dot",
                           w  |-> [y \in 1..ys |-> att.data[(bi * xs + xi) * ys + y]],
                           v  |-> [y \in 1..ys |-> v.data[(bi * ys + y - 1) * d + di + 1]]]])]

\* F.scaled_dot_product_attention(q, k, v, attn_mask=None, scale, dropout_p,
\* is_causal=False): softmax(q k^T * scale) with dropout ALWAYS applied at
\* dropout_p (the functional form has no training flag), times v
ScaledDotProductAttention(q, k, v, scale, dropout_p, dropped) ==
    WeightedSum(Dropout(Softmax(Scaled(Scores(q, k), scale)), dropout_p, TRUE, dropped), v)

\* (variant: the scores are not multiplied by self.scale)
ManualAttentionUnscaled(q, k, v, scale, dropout_rate, train, dropped) ==
    WeightedSum(Dropout(Softmax(Scaled(Scores(q, k), ScaleOf(1))), dropout_rate, train,
                        dropped), v)

\* the manual path: einsum * scale, softmax, self.drop_weights, einsum
ManualAttention(q, k, v, scale, dropout_rate, train, dropped) ==
    WeightedSum(Dropout(Softmax(Scaled(Scores(q, k), scale)), dropout_rate, train, dropped), v)

\* self.out_rearrange: Rearrange("b h l d -> b l (h d)"), [b, h, l, d] -> [b, l, h*d];
\* out[bi, li, HeadIndex(hi, di)] = t[bi, hi, li, di]
OutRearrange(t) ==
    LET b == t.shape[1]
        h == t.shape[2]
        l == t.shape[3]
        d == t.shape[4]
    IN  [shape |-> <<b, l, h * d>>,
         data  |-> Seal([o \in 1..(b * l * h * d) |->
                      LET di == (o - 1) % d
                          hi == ((o - 1) \div d) % h
                          li == ((o - 1) \div (d * h)) % l
                          bi == (o - 1) \div (d * h * l)
                      IN  t.data[((bi * h + hi) * l + li) * d + di + 1]])]

\* (variant: the projection back to hidden_size is skipped)
OutProjSkipped(x, lin) == x

\* self.out_proj(x) on symbolic elements: weight row, inputs and bias kept exact
OutProj(x, lin) ==
    LET in   == lin.weight.shape[2]
        out  == lin.weight.shape[1]
        rows == Prod(x.shape) \div in
    IN  [shape |-> SubSeq(x.shape, 1, Len(x.shape) - 1) \o <<out>>,
         data  |-> Seal([o \in 1..(rows * out) |->
                      LET r == (o - 1) \div out
                          f == (o - 1) % out
                      IN  [op |-> "affine",
                           w  |-> [i \in 1..in |-> lin.weight.data[f * in + i]],
                           x  |-> [i \in 1..in |-> x.data[r * in + i]],
                           b  |-> lin.bias.data[f + 1]]])]

\* The exception forward raises on input x, or NoErr
ForwardErr(x, c, qkvLin) ==
    IF LinearErr(x, qkvLin) # NoErr THEN LinearErr(x, qkvLin)
    ELSE RearrangeErr(SubSeq(x.shape, 1, Len(x.shape) - 1) \o <<qkvLin.weight.shape[1]>>,
                      c.num_heads)

\* The tensor forward returns on a well-formed x, for the block attributes
\* (c, qkvLin, outLin, flash, train) and the dropout draws dropW, dropO
ForwardValue(x, c, qkvLin, outLin, flash, train, dropW, dropO) ==
    LET output == InputRearrange(Linear(x, qkvLin), c.num_heads)
        q == Select(output, 0)
        k == Select(output, 1)
        v == Select(output, 2)
        a == IF flash
             THEN ScaledDotProductAttention(q, k, v, c.scale, c.dropout_rate, dropW)
             ELSE ManualAttention(q, k, v, c.scale, c.dropout_rate, train, dropW)
    IN  Dropout(OutProj(OutRearrange(a), outLin), c.dropout_rate, train, dropO)

\* (variant: elements can be dropped at p = 0 as well)
DropSetsAnyRate(p, active, n) ==
    IF ~active THEN {{}}
    ELSE IF p[1] = p[2] THEN {0..(n - 1)}
    ELSE (SUBSET (0..((IF MaskBits < n THEN MaskBits ELSE n) - 1))) \cup {0..(n - 1)}

\* The masks a dropout stage over n elements can draw: nothing is dropped at
\* p = 0, everything at p = 1; otherwise any subset (the model explores the
\* subsets of the first MaskBits elements, and the full set)
DropSets(p, active, n) ==
    IF ~active \/ p[1] = 0 THEN {{}}
    ELSE IF p[1] = p[2] THEN {0..(n - 1)}
    ELSE (SUBSET (0..((IF MaskBits < n THEN MaskBits ELSE n) - 1))) \cup {0..(n - 1)}

\* whether the attention-weight dropout is live on the selected path
WeightDropoutActive(flash, train) == IF flash THEN TRUE ELSE train

\* Input tensors: ranks 1 to 4, entries in {-1, 0, 1}
InputShapes ==
    {<<h>> : h \in HiddenSizes}
    \cup {<<s, h>> : s \in 1..MaxSeq, h \in HiddenSizes}
    \cup {<<b, s, h>> : b \in 1..MaxBatch, s \in 1..MaxSeq, h \in HiddenSizes}
    \cup {<<1, 1, s, h>> : s \in 1..MaxSeq, h \in HiddenSizes}

InputIds == {1}

XData(id, n) == [o \in 1..n |-> ((id + o * o + (o \div 2)) % 3) - 1]

Inputs == {[shape |-> s, data |-> Seal(XData(id, Prod(s)))] : s \in InputShapes, id \in InputIds}

\* (variant: forward switches the block back to the manual path)
ForwardFrameResetsFlash ==
    /\ use_flash_attention' = FALSE
    /\ UNCHANGED <<constructed, cfg, qkv, out_proj, att_mat, training>>

\* forward assigns no attribute of self: att_mat in its body is a local of the
\* manual path, self.att_mat is never written
ForwardFrame ==
    UNCHANGED <<constructed, cfg, qkv, out_proj, att_mat, use_flash_attention, training>>

Forward(x) ==
    LET e == ForwardErr(x, cfg, qkv) IN
    /\ constructed
    /\ ret = NoRet
    /\ IF e # NoErr
       THEN /\ ret' = [NoRet EXCEPT !.op = "forward", !.err = e, !.x = x,
                                    !.flash = use_flash_attention, !.train = training]
           ELSE \E dropW \in DropSets(cfg.dropout_rate,
                                  WeightDropoutActive(use_flash_attention, training),
                                  x.shape[1] * cfg.num_heads * x.shape[2] * x.shape[2]),
               dropO \in DropSets(cfg.dropout_rate, training,
                                  x.shape[1] * x.shape[2] * out_proj.weight.shape[1]) :
              LET y == ForwardValue(x, cfg, qkv, out_proj, use_flash_attention,
                                    training, dropW, dropO)
              IN  ret' = [NoRet EXCEPT !.op = "forward", !.x = x, !.out = y,
                                       !.flash = use_flash_attention,
                                       !.train = training]
    /\ ForwardFrame

\* The caller takes the outcome (the returned tensor or the raised exception)
\* of the call just made
Return ==
    /\ ret # NoRet
    /\ ret' = NoRet
    /\ UNCHANGED <<constructed, cfg, qkv, out_proj, att_mat, use_flash_attention,
                   training>>

-----------------------------------------------------------------------------
Init ==
    /\ constructed = FALSE
    /\ cfg = NoCfg
    /\ qkv = NoLinear
    /\ out_proj = NoLinear
    /\ att_mat = EmptyTensor
    /\ use_flash_attention = FALSE
    /\ training = TRUE
    /\ ret = NoRet

Next ==
    \/ \E hidden_size \in HiddenSizes, num_heads \in HeadCounts, dropout_rate \in Rates,
          qkv_bias \in BOOLEAN, save_attn \in BOOLEAN, dim_head \in DimHeads,
          seed \in Seeds :
          Construct(hidden_size, num_heads, dropout_rate, qkv_bias, save_attn,
                    dim_head, seed)
    \/ \E x \in Inputs : Forward(x)
    \/ \E mode \in BOOLEAN : SetTraining(mode)
    \/ \E flag \in BOOLEAN : SetUseFlashAttention(flag)
    \/ Return

Spec == Init /\ [][Next]_vars

-----------------------------------------------------------------------------
\* Properties

HiddenSize == qkv.weight.shape[2]

\* the closed interval [0,1] of the specification, on rationals <<num, den>>
InUnitInterval(r) == r \in {<<0, 1>>, <<1, 2>>, <<1, 1>>}

InitDone == ret.op = "init"
ForwardDone == ret.op = "forward"
ForwardOk == ret.op = "forward" /\ ret.err = NoErr

\* InvalidConfiguration is __init__'s ValueError, ShapeMismatch is the
\* exception forward's shape handling raises
InvalidConfiguration == ret.err = "ValueError"
ShapeMismatch == ret.err \in {"RuntimeError", "EinopsError"}
RejectedIndivisible ==
    ret.err = "ValueError" /\ ret.msg = "hidden size should be divisible by num_heads."

\* C1 as stated: for a dropout rate in [0,1], construction is rejected for
\* indivisibility exactly when dim_head is not supplied and hidden_size is not
\* divisible by num_heads.
C1_AsStated ==
    (/\ InitDone
     /\ RateInRange(ret.args.dropout_rate)
     /\ (ret.args.dim_head = <<>> \/ ret.args.dim_head[1] > 0)) =>
        (RejectedIndivisible <=>
            (ret.args.dim_head = <<>> /\ ret.args.hidden_size % ret.args.num_heads # 0))

\* C1 amended: for a dropout rate in [0,1], construction is rejected for
\* indivisibility exactly when hidden_size is not divisible by num_heads, whether
\* or not dim_head is supplied; with a divisible hidden_size and a positive
\* dim_head supplied, construction succeeds with inner_dim = dim_head * num_heads.
C1_DivisibilityAlwaysRequired ==
    (InitDone /\ RateInRange(ret.args.dropout_rate)) =>
        /\ RejectedIndivisible <=> (ret.args.hidden_size % ret.args.num_heads # 0)
        /\ (/\ ret.args.hidden_size % ret.args.num_heads = 0
            /\ ret.args.dim_head # <<>>
            /\ ret.args.dim_head[1] > 0)
           => (/\ ret.err = NoErr
               /\ constructed
               /\ cfg.inner_dim = ret.args.dim_head[1] * ret.args.num_heads)

C1_Witness ==
    /\ InitDone
    /\ RateInRange(ret.args.dropout_rate)
    /\ ret.args.dim_head # <<>>
    /\ ret.args.dim_head[1] > 0
    /\ ret.args.hidden_size % ret.args.num_heads # 0
    /\ RejectedIndivisible
    /\ ~constructed

\* C2: with a divisible hidden_size, construction fails with
\* InvalidConfiguration if and only if dropout_rate lies outside [0,1]; a
\* rejected construction creates no block, and every rate in [0,1], endpoints
\* included, is accepted.
C2_RateRejectedIffOutOfRange ==
    (InitDone /\ ret.args.hidden_size % ret.args.num_heads = 0) =>
        /\ InvalidConfiguration <=> ~InUnitInterval(ret.args.dropout_rate)
        /\ InvalidConfiguration => ~constructed
        /\ (/\ InUnitInterval(ret.args.dropout_rate)
            /\ DimHeadOf(ret.args.hidden_size, ret.args.num_heads, ret.args.dim_head) # 0)
           => (ret.err = NoErr /\ constructed /\ cfg.dropout_rate = ret.args.dropout_rate)

C2_Witness ==
    /\ InitDone
    /\ ret.args.hidden_size % ret.args.num_heads = 0
    /\ ret.args.dropout_rate = <<3, 2>>
    /\ InvalidConfiguration
    /\ ~constructed

\* C3: for every constructed block (also with dim_head overridden, so that
\* inner_dim differs from hidden_size) and every input of shape
\* [batch, seqLen, hidden_size], forward succeeds and returns a tensor of
\* exactly that shape, on the fast and on the manual path.
C3_OutputShapeEqualsInputShape ==
    (ForwardDone /\ Len(ret.x.shape) = 3 /\ ret.x.shape[3] = HiddenSize) =>
        /\ ret.err = NoErr
        /\ ret.out.shape = ret.x.shape
        /\ Len(ret.out.data) = Prod(ret.x.shape)

C3_Witness ==
    /\ ForwardOk
    /\ ret.flash
    /\ cfg.inner_dim # HiddenSize
    /\ ret.x.shape[1] = MaxBatch
    /\ ret.x.shape[2] = MaxSeq
    /\ ret.out.shape = ret.x.shape

\* C4: forward on an input whose rank is not 3 (even with last dimension
\* hidden_size) or whose last dimension differs from hidden_size fails with
\* ShapeMismatch and returns nothing, on both paths.
C4_MalformedInputRejected ==
    (ForwardDone /\ (Len(ret.x.shape) # 3 \/ ret.x.shape[Len(ret.x.shape)] # HiddenSize)) =>
        (ShapeMismatch /\ ret.out = NoTensor)

C4_Witness ==
    /\ ForwardDone
    /\ Len(ret.x.shape) = 2
    /\ ret.x.shape[2] = HiddenSize
    /\ ret.flash
    /\ ShapeMismatch

\* C5 as stated: after a manual-path forward on [batch, seqLen, hidden_size]
\* returns, the retained snapshot has shape [batch, num_heads, seqLen, seqLen]
\* if and only if save_attn is true, and is empty when save_attn is false.
C5_AsStated ==
    (ForwardOk /\ ~ret.flash) =>
        /\ cfg.save_attn <=>
             (att_mat.shape = <<ret.x.shape[1], cfg.num_heads, ret.x.shape[2], ret.x.shape[2]>>)
        /\ ~cfg.save_attn => att_mat = EmptyTensor

\* the numbers of elements the two dropout stages of the call in ret act on
WeightCount == ret.x.shape[1] * cfg.num_heads * ret.x.shape[2] * ret.x.shape[2]
OutputCount == ret.x.shape[1] * ret.x.shape[2] * HiddenSize

\* every output a forward call on ret.x can return on the given path and in
\* the given mode, over all dropout draws
Outcomes(flash, train) ==
    {ForwardValue(ret.x, cfg, qkv, out_proj, flash, train, dropW, dropO) :
        dropW \in DropSets(cfg.dropout_rate, WeightDropoutActive(flash, train), WeightCount),
        dropO \in DropSets(cfg.dropout_rate, train, OutputCount)}

\* what the block computes without any dropout: softmax(q k^T scale) v,
\* reassembled and projected
NoDropoutValue(flash) ==
    ForwardValue(ret.x, [cfg EXCEPT !.dropout_rate = <<0, 1>>], qkv, out_proj,
                 flash, FALSE, {}, {})

\* C6: with dropout_rate = 0 and the block in evaluation mode, the fast path and
\* the manual path return the same output for the same parameters and input,
\* and the attention weights in it are softmax terms scaled by dim_head^(-1/2).
C6_PathsAgreeInEval ==
    (ForwardOk /\ cfg.dropout_rate = <<0, 1>> /\ ~ret.train) =>
        /\ Outcomes(~ret.flash, FALSE) = {ret.out}
        /\ \A o \in 1..Len(ret.out.data) :
             \A i \in 1..cfg.inner_dim :
               \A y \in 1..ret.x.shape[2] :
                  /\ ret.out.data[o].x[i].w[y].op = "softmax"
                  /\ ret.out.data[o].x[i].w[y].scale = [base |-> cfg.dim_head, exp |-> <<-1, 2>>]

C6_Witness ==
    /\ ForwardOk
    /\ cfg.dropout_rate = <<0, 1>>
    /\ ~ret.train
    /\ ret.flash
    /\ cfg.dim_head > 1
    /\ ret.x.shape[2] = MaxSeq
    /\ Outcomes(FALSE, FALSE) = {ret.out}

\* C7 as stated: in evaluation mode dropout is a no-op on both paths, for every
\* dropout_rate in [0,1]: forward's output equals the output of the same block
\* with dropout_rate = 0.
C7_AsStated ==
    (ForwardOk /\ ~ret.train) => ret.out = NoDropoutValue(ret.flash)

\* C8: with dropout_rate = 0, a forward call on the same input, the same
\* parameters and the same path returns the same output as the call just made,
\* in training or in evaluation mode and whatever calls were made before.
C8_DeterministicAtRateZero ==
    (ForwardOk /\ cfg.dropout_rate = <<0, 1>>) =>
        \A train \in BOOLEAN : Outcomes(ret.flash, train) = {ret.out}

C8_Witness ==
    /\ ForwardOk
    /\ cfg.dropout_rate = <<0, 1>>
    /\ ret.train
    /\ ret.flash
    /\ Outcomes(ret.flash, FALSE) = {ret.out}

\* C9: a forward call, on either path and whether it succeeds or fails, leaves
\* the parameters, the configuration, the use_flash_attention toggle and the
\* train/eval mode unchanged.
C9_ForwardChangesNoBlockState ==
    [][(ret = NoRet /\ ret'.op = "forward") =>
          UNCHANGED <<constructed, cfg, qkv, out_proj, use_flash_attention, training>>]_vars

C9_Witness ==
    /\ ForwardDone
    /\ ret.err # NoErr
    /\ use_flash_attention
    /\ ~training
    /\ ret.flash
    /\ ~ret.train

\* element [i, j, k] of a rank-3 tensor, [i, j, k, l] of a rank-4 tensor
At3(t, i, j, k) == t.data[(i * t.shape[2] + j) * t.shape[3] + k + 1]
At4(t, i, j, k, l) == t.data[((i * t.shape[2] + j) * t.shape[3] + k) * t.shape[4] + l + 1]

\* a tensor of the given shape whose elements are their own flat positions
Iota(shape) == [shape |-> shape, data |-> Seal([o \in 1..Prod(shape) |-> o])]

\* C10: feature f of the packed projection output belongs to chunk f div
\* inner_dim, head (f mod inner_dim) div dim_head, position f mod dim_head; Q, K,
\* V have shape [batch, num_heads, seqLen, dim_head]; reassembly puts head h,
\* position d at feature h * dim_head + d, so that splitting a chunk into heads
\* and reassembling it gives the chunk back.
C10_SplitAndReassembly ==
    ForwardOk =>
        LET b     == ret.x.shape[1]
            s     == ret.x.shape[2]
            inner == cfg.inner_dim
            dh    == cfg.dim_head
            y     == Iota(<<b, s, 3 * inner>>)
            split == InputRearrange(y, cfg.num_heads)
            chunk == <<Select(split, 0), Select(split, 1), Select(split, 2)>>
            back  == <<OutRearrange(chunk[1]), OutRearrange(chunk[2]),
                       OutRearrange(chunk[3])>>
        IN  /\ Linear(ret.x, qkv).shape = y.shape
            /\ \A c \in 0..2 :
                 /\ chunk[c + 1].shape = <<b, cfg.num_heads, s, dh>>
                 /\ back[c + 1].shape = <<b, s, inner>>
            /\ \A bi \in 0..(b - 1), si \in 0..(s - 1), f \in 0..(3 * inner - 1) :
                 At4(chunk[(f \div inner) + 1], bi, (f % inner) \div dh, si, f % dh)
                    = At3(y, bi, si, f)
            /\ \A c \in 0..2, bi \in 0..(b - 1), si \in 0..(s - 1),
                  h \in 0..(cfg.num_heads - 1), d \in 0..(dh - 1) :
                 /\ At3(back[c + 1], bi, si, h * dh + d) = At4(chunk[c + 1], bi, h, si, d)
                 /\ At3(back[c + 1], bi, si, h * dh + d)
                       = At3(y, bi, si, c * inner + h * dh + d)

C10_Witness ==
    /\ ForwardOk
    /\ cfg.num_heads = 2
    /\ cfg.dim_head = 2
    /\ ret.x.shape[1] = MaxBatch
    /\ ret.x.shape[2] = MaxSeq
    /\ Select(InputRearrange(Linear(ret.x, qkv), 2), 1).shape = <<MaxBatch, 2, MaxSeq, 2>>

====
